---- MODULE Spec2Model ----
(***************************************************************************)
(* A model of fingerjoint.py: FingerJointMaker (the edge generator, make,  *)
(* rotate, translate, center_points, svg) and the command line around it.  *)
(*                                                                         *)
(* Arithmetic is exact.  Every coordinate is held as twice its value, so   *)
(* that the halves the code takes (kerf / 2.0, spare_change / 2.0) stay    *)
(* integers: D(v) is the held form of the length v.  The inputs are        *)
(* integers; inputs with a common denominator behave the same after        *)
(* scaling.  The rounding of IEEE doubles is not modelled.                 *)
(*                                                                         *)
(* An angle is held as a number of quarter turns (1 is pi/2, 2 is pi), the *)
(* only angles for which cos and sin are exact.                            *)
(***************************************************************************)
EXTENDS Integers, Sequences, FiniteSets

VARIABLES
    width, height, finger_width, suppressed_fingers, kerf,
    finger_width_safety_margin,   \* the fields __init__ sets from its arguments
    points,                       \* self.points: None, or the sequence of points
    svg_width, svg_height,        \* self.svg_width, self.svg_height: None, or held lengths
    pc,                           \* where the caller of the object is
    i,                            \* make's loop index
    length, suppressed,           \* the arguments of the latest _make_edge call
    num_fingers,                  \* _make_edge's num_fingers at its return
    new_points,                   \* what the latest _make_edge call returned
    out,                          \* what the latest call on the object returned
    copy_of_original_points,      \* the points before a run of rotate(pi) calls
    pi_turns,                     \* how many rotate(pi) calls that run holds
    centerings,                   \* center_points calls since the points last changed otherwise
    suppressed_arg                \* the text given to --suppressed_fingers, or NotGiven

vars == <<width, height, finger_width, suppressed_fingers, kerf,
          finger_width_safety_margin, points, svg_width, svg_height, pc, i,
          length, suppressed, num_fingers, new_points, out,
          copy_of_original_points, pi_turns, centerings, suppressed_arg>>

\* None is held as the empty tuple; no sequence the code builds is empty.
None == <<>>

\* ---------------------------------------------------------------- bounds
\* MaxLen, MaxFingerWidth and MaxKerf bound the panels of Spec; the MaxEdge
\* ones bound the calls of SpecEdge, MaxArgLen the texts of SpecCli, and
\* MaxCalls the center_points calls in a row.

MaxLen == 3
MaxFingerWidth == 2
MaxKerf == 1
MaxCalls == 3
MaxEdgeLen == 6
MaxEdgeFingerWidth == 3
MaxEdgeSuppressed == 2
MaxEdgeKerf == 2
MaxArgLen == 8

Margins == {0, 1}
SuppressedChoices == {<<0, 0, 0, 0>>, <<1, 0, 2, 0>>, <<0, 1, 2, 3>>}
Chars == {"1", "x", ",", " "}

\* --suppressed_fingers is not on the command line (a text is a sequence of
\* characters, and this is none).
NotGiven == <<"--">>

\* ------------------------------------------------------------ arithmetic

\* The held form of a length: twice its value.
D(v) == 2 * v

SVG_MARGIN == 10

PI_2 == 1
PI == 2

\* math.cos and math.sin at a whole number of quarter turns.
Cos(angle) == CASE angle % 4 = 0 -> 1
                [] angle % 4 = 1 -> 0
                [] angle % 4 = 2 -> -1
                [] angle % 4 = 3 -> 0

Sin(angle) == CASE angle % 4 = 0 -> 0
                [] angle % 4 = 1 -> 1
                [] angle % 4 = 2 -> 0
                [] angle % 4 = 3 -> -1


\* ------------------------------------------------------------ _make_edge

RawFingers(len, sup) == (len \div finger_width) - sup

NumFingersNoParity(len, sup) == RawFingers(len, sup)

NumFingers(len, sup) ==
    IF RawFingers(len, sup) % 2 = 0 THEN RawFingers(len, sup) - 1
                                    ELSE RawFingers(len, sup)

SpareChange(len, sup) == len - NumFingers(len, sup) * finger_width

\* The while loop: current_x, limit, y, y_offset and x_offset_abs are held.
RECURSIVE EdgeLoop(_, _, _, _, _, _, _)
EdgeLoop(pts, current_x, k, limit, y, y_offset, x_offset_abs) ==
    IF current_x <= limit
    THEN LET x_offset == IF k % 2 = 0 THEN -1 * x_offset_abs ELSE x_offset_abs
             pair == IF k % 2 = 0
                     THEN << <<current_x + x_offset, y>>,
                             <<current_x + x_offset, y + y_offset>> >>
                     ELSE << <<current_x + x_offset, y + y_offset>>,
                             <<current_x + x_offset, y>> >>
         IN EdgeLoop(pts \o pair, current_x + D(finger_width), k + 1,
                     limit, y, y_offset, x_offset_abs)
    ELSE pts

make_edge(len, sup) ==
    LET spare_change == SpareChange(len, sup)
        current_x == kerf + spare_change
        y == kerf
        y_offset == D(finger_width + finger_width_safety_margin)
        x_offset_abs == kerf
        limit == D(len + kerf) - spare_change
    IN Append(EdgeLoop(<< <<0, 0>> >>, current_x, 0, limit, y, y_offset, x_offset_abs),
              <<D(len + kerf), y>>)

\* ----------------------------------------------------- rotate, translate

RotatePointSwapped(angle, p) ==
    <<Sin(angle) * p[1] + Cos(angle) * p[2],
      -1 * Cos(angle) * p[1] + Sin(angle) * p[2]>>

\* np.dot(m_rotate, p), m_rotate = [[cos, sin], [-sin, cos]]
RotatePoint(angle, p) ==
    <<Cos(angle) * p[1] + Sin(angle) * p[2],
      -1 * Sin(angle) * p[1] + Cos(angle) * p[2]>>

Rotated(pts, angle) == [k \in 1..Len(pts) |-> RotatePoint(angle, pts[k])]

TranslatedSwapped(pts, x, y) == [k \in 1..Len(pts) |-> <<pts[k][1] + y, pts[k][2] + x>>]

\* x and y are held lengths.
Translated(pts, x, y) == [k \in 1..Len(pts) |-> <<pts[k][1] + x, pts[k][2] + y>>]

\* ------------------------------------------------------------------ make

edge_length == <<width, height, width, height>>

Appended(pts, new) == IF pts = None THEN new ELSE pts \o new

\* One iteration of make's loop.
make_iteration ==
    /\ pc = "make"
    /\ i < Len(edge_length)
    /\ LET el == edge_length[i + 1]
           new == make_edge(el, suppressed_fingers[i + 1])
       IN /\ length' = el
          /\ suppressed' = suppressed_fingers[i + 1]
          /\ num_fingers' = NumFingers(el, suppressed_fingers[i + 1])
          /\ new_points' = new
          /\ points' = Rotated(Translated(Appended(points, new), D(-1 * (el + kerf)), 0), PI_2)
    /\ i' = i + 1
    /\ pc' = IF i + 1 < Len(edge_length) THEN "make" ELSE "built"
    /\ UNCHANGED <<width, height, finger_width, suppressed_fingers, kerf,
                   finger_width_safety_margin, svg_width, svg_height, out,
                   copy_of_original_points, pi_turns, centerings, suppressed_arg>>

\* ---------------------------------------------------------------- rotate

\* A call of rotate(angle) on the made object.
rotate(angle) ==
    /\ pc \in {"built", "rotated", "centered", "exported"}
    /\ points' = Rotated(points, angle)
    /\ pc' = "rotated"
    /\ centerings' = 0
    /\ out' = None
    /\ IF angle = PI /\ pi_turns = 1
       THEN /\ pi_turns' = 2
            /\ UNCHANGED copy_of_original_points
       ELSE IF angle = PI
       THEN /\ pi_turns' = 1
            /\ copy_of_original_points' = points
       ELSE /\ pi_turns' = 0
            /\ copy_of_original_points' = None
    /\ UNCHANGED <<width, height, finger_width, suppressed_fingers, kerf,
                   finger_width_safety_margin, svg_width, svg_height, i,
                   length, suppressed, num_fingers, new_points, suppressed_arg>>

\* --------------------------------------------------------- center_points

\* The loop over the points: k is the place read, acc is smallest (largest) so far.
RECURSIVE SmallestFrom(_, _, _)
SmallestFrom(pts, k, acc) ==
    IF k > Len(pts) THEN acc
    ELSE IF pts[k][1] < acc[1]
    THEN (IF pts[k][2] < acc[2] THEN SmallestFrom(pts, k + 1, pts[k])
                                ELSE SmallestFrom(pts, k + 1, <<pts[k][1], acc[2]>>))
    ELSE (IF pts[k][2] < acc[2] THEN SmallestFrom(pts, k + 1, <<acc[1], pts[k][2]>>)
                                ELSE SmallestFrom(pts, k + 1, acc))

RECURSIVE LargestFrom(_, _, _)
LargestFrom(pts, k, acc) ==
    IF k > Len(pts) THEN acc
    ELSE IF pts[k][1] > acc[1]
    THEN (IF pts[k][2] > acc[2] THEN LargestFrom(pts, k + 1, pts[k])
                                ELSE LargestFrom(pts, k + 1, <<pts[k][1], acc[2]>>))
    ELSE (IF pts[k][2] > acc[2] THEN LargestFrom(pts, k + 1, <<acc[1], pts[k][2]>>)
                                ELSE LargestFrom(pts, k + 1, acc))

SmallestFromOrigin(pts) == SmallestFrom(pts, 1, <<0, 0>>)

Smallest(pts) == SmallestFrom(pts, 1, pts[1])

Largest(pts) == LargestFrom(pts, 1, pts[1])

CenteredNoShift(pts) ==
    [k \in 1..Len(pts) |-> <<pts[k][1] + D(SVG_MARGIN), pts[k][2] + D(SVG_MARGIN)>>]

\* self.points - smallest + [SVG_MARGIN, SVG_MARGIN]
Centered(pts) ==
    LET smallest == Smallest(pts)
    IN [k \in 1..Len(pts) |-> <<pts[k][1] - smallest[1] + D(SVG_MARGIN),
                                pts[k][2] - smallest[2] + D(SVG_MARGIN)>>]

\* largest - smallest + [2 * SVG_MARGIN, 2 * SVG_MARGIN]
Extents(pts) ==
    LET smallest == Smallest(pts)
        largest == Largest(pts)
    IN <<largest[1] - smallest[1] + D(2 * SVG_MARGIN),
         largest[2] - smallest[2] + D(2 * SVG_MARGIN)>>

\* What center_points does to the object.
CenterPointsBody ==
    LET extents == Extents(points)
    IN /\ points' = Centered(points)
       /\ svg_width' = extents[1]
       /\ svg_height' = extents[2]

center_points ==
    /\ pc \in {"built", "rotated", "centered", "exported"}
    /\ centerings < MaxCalls
    /\ CenterPointsBody
    /\ centerings' = centerings + 1
    /\ pc' = "centered"
    /\ out' = None
    /\ pi_turns' = 0
    /\ copy_of_original_points' = None
    /\ UNCHANGED <<width, height, finger_width, suppressed_fingers, kerf,
                   finger_width_safety_margin, i, length, suppressed,
                   num_fingers, new_points, suppressed_arg>>

\* ------------------------------------------------------------------- svg

\* The <line> elements of the loop over range(0, len(self.points) - 1).
Lines(pts) ==
    [k \in 1..(Len(pts) - 1) |->
        <<pts[((k - 1) % Len(pts)) + 1], pts[(k % Len(pts)) + 1]>>]

\* The markup: the viewport ('%d' cuts the fraction off) and the lines.  The
\* style block is constant text.
Markup(pts, w, h) == << <<w \div 2, h \div 2>>, Lines(pts) >>

Viewport(markup) == markup[1]
SvgLines(markup) == markup[2]

\* What svg(filename) does, center_points included.  Given a filename it writes
\* the markup to that file, whose content the model does not hold, and returns
\* None.
SvgBody(filename) ==
    /\ CenterPointsBody
    /\ out' = IF filename # None THEN None
                                 ELSE Markup(points', svg_width', svg_height')

svg(filename) ==
    /\ pc \in {"built", "rotated", "centered", "exported"}
    /\ centerings < MaxCalls
    /\ SvgBody(filename)
    /\ centerings' = centerings + 1
    /\ pc' = "exported"
    /\ pi_turns' = 0
    /\ copy_of_original_points' = None
    /\ UNCHANGED <<width, height, finger_width, suppressed_fingers, kerf,
                   finger_width_safety_margin, i, length, suppressed,
                   num_fingers, new_points, suppressed_arg>>

\* ------------------------------------------------- the made object: Spec

Init ==
    /\ width \in 1..MaxLen
    /\ height \in 1..MaxLen
    /\ finger_width \in 1..MaxFingerWidth
    /\ suppressed_fingers \in SuppressedChoices
    /\ kerf \in 0..MaxKerf
    /\ finger_width_safety_margin \in Margins
    /\ points = None
    /\ svg_width = None
    /\ svg_height = None
    /\ pc = "make"
    /\ i = 0
    /\ length = None
    /\ suppressed = None
    /\ num_fingers = None
    /\ new_points = None
    /\ out = None
    /\ copy_of_original_points = None
    /\ pi_turns = 0
    /\ centerings = 0
    /\ suppressed_arg = NotGiven

Next ==
    \/ make_iteration
    \/ \E angle \in {PI_2, PI} : rotate(angle)
    \/ center_points
    \/ \E filename \in {None, <<"test.svg">>} : svg(filename)

Spec == Init /\ [][Next]_vars

\* --------------------------------------- _make_edge on its own: SpecEdge

InitEdge ==
    /\ finger_width \in 1..MaxEdgeFingerWidth
    /\ kerf \in 0..MaxEdgeKerf
    /\ finger_width_safety_margin \in Margins
    /\ length \in 0..MaxEdgeLen
    /\ suppressed \in 0..MaxEdgeSuppressed
    /\ width = length
    /\ height = length
    /\ suppressed_fingers = <<suppressed, suppressed, suppressed, suppressed>>
    /\ points = None
    /\ svg_width = None
    /\ svg_height = None
    /\ pc = "edge"
    /\ i = 0
    /\ num_fingers = None
    /\ new_points = None
    /\ out = None
    /\ copy_of_original_points = None
    /\ pi_turns = 0
    /\ centerings = 0
    /\ suppressed_arg = NotGiven

\* A call of _make_edge(length, suppressed).
call_make_edge ==
    /\ pc = "edge"
    /\ num_fingers' = NumFingers(length, suppressed)
    /\ new_points' = make_edge(length, suppressed)
    /\ pc' = "edge_done"
    /\ UNCHANGED <<width, height, finger_width, suppressed_fingers, kerf,
                   finger_width_safety_margin, points, svg_width, svg_height,
                   i, length, suppressed, out, copy_of_original_points,
                   pi_turns, centerings, suppressed_arg>>

NextEdge == call_make_edge

SpecEdge == InitEdge /\ [][NextEdge]_vars

\* ------------------------------------------------ the command line: SpecCli

\* A text is a sequence of one-character strings.
Whitespace == {" "}
Digits == {"0", "1", "2", "3", "4", "5", "6", "7", "8", "9"}

DigitValue(c) ==
    CASE c = "0" -> 0 [] c = "1" -> 1 [] c = "2" -> 2 [] c = "3" -> 3
      [] c = "4" -> 4 [] c = "5" -> 5 [] c = "6" -> 6 [] c = "7" -> 7
      [] c = "8" -> 8 [] c = "9" -> 9

\* string.split(','): k is the place read, element the text since the last comma.
RECURSIVE SplitFrom(_, _, _, _)
SplitFrom(string, k, element, elements) ==
    IF k > Len(string) THEN Append(elements, element)
    ELSE IF string[k] = ","
    THEN SplitFrom(string, k + 1, <<>>, Append(elements, element))
    ELSE SplitFrom(string, k + 1, Append(element, string[k]), elements)

Split(string) == SplitFrom(string, 1, <<>>, <<>>)

RECURSIVE LStrip(_)
LStrip(string) ==
    IF string # <<>> /\ Head(string) \in Whitespace THEN LStrip(Tail(string)) ELSE string

RECURSIVE RStrip(_)
RStrip(string) ==
    IF string # <<>> /\ string[Len(string)] \in Whitespace
    THEN RStrip(SubSeq(string, 1, Len(string) - 1))
    ELSE string

\* str.strip
Strip(string) == RStrip(LStrip(string))

Unsigned(string) ==
    IF string # <<>> /\ Head(string) \in {"+", "-"} THEN Tail(string) ELSE string

\* Whether int(string) returns (it raises ValueError otherwise).
IsInt(string) ==
    /\ Unsigned(Strip(string)) # <<>>
    /\ \A k \in 1..Len(Unsigned(Strip(string))) : Unsigned(Strip(string))[k] \in Digits

RECURSIVE Decimal(_, _)
Decimal(string, acc) ==
    IF string = <<>> THEN acc ELSE Decimal(Tail(string), 10 * acc + DigitValue(Head(string)))

\* int(string), when IsInt(string)
Int_(string) ==
    IF Head(Strip(string)) = "-" THEN -1 * Decimal(Unsigned(Strip(string)), 0)
                                 ELSE Decimal(Unsigned(Strip(string)), 0)

\* What the type function of --suppressed_fingers does: it raises, or it
\* returns the list.
comma_separated_list_of_four_integers(string) ==
    LET elements == Split(string)
    IN IF Len(elements) # 4 THEN <<"AssertionError">>
       ELSE IF \E k \in 1..4 : ~IsInt(Strip(elements[k])) THEN <<"ValueError">>
       ELSE <<"list", [k \in 1..4 |-> Int_(Strip(elements[k]))]>>

InitCli ==
    /\ suppressed_arg \in {NotGiven} \cup UNION {[1..n -> Chars] : n \in 0..MaxArgLen}
    /\ width \in {2, 3}
    /\ height = 1
    /\ finger_width = 1
    /\ kerf \in {0, 1}
    /\ finger_width_safety_margin = 0
    /\ suppressed_fingers = <<0, 0, 0, 0>>
    /\ points = None
    /\ svg_width = None
    /\ svg_height = None
    /\ pc = "main"
    /\ i = 0
    /\ length = None
    /\ suppressed = None
    /\ num_fingers = None
    /\ new_points = None
    /\ out = None
    /\ copy_of_original_points = None
    /\ pi_turns = 0
    /\ centerings = 0

\* main's call of parse_arguments and, when it returns, of the constructor.
\* argparse turns a ValueError of a type function into a usage error and lets
\* any other exception through.
parse_arguments ==
    /\ pc = "main"
    /\ IF suppressed_arg = NotGiven
       THEN /\ pc' = "make"
            /\ UNCHANGED suppressed_fingers
       ELSE LET value == comma_separated_list_of_four_integers(suppressed_arg)
            IN IF value[1] = "list"
               THEN /\ pc' = "make"
                    /\ suppressed_fingers' = value[2]
               ELSE IF value[1] = "ValueError"
               THEN /\ pc' = "usage_error"
                    /\ UNCHANGED suppressed_fingers
               ELSE /\ pc' = "AssertionError"
                    /\ UNCHANGED suppressed_fingers
    /\ UNCHANGED <<width, height, finger_width, kerf, finger_width_safety_margin,
                   points, svg_width, svg_height, i, length, suppressed,
                   num_fingers, new_points, out, copy_of_original_points,
                   pi_turns, centerings, suppressed_arg>>

\* main's print of finger_joint_maker.svg()
print_svg ==
    /\ pc = "built"
    /\ SvgBody(None)
    /\ pc' = "printed"
    /\ UNCHANGED <<width, height, finger_width, suppressed_fingers, kerf,
                   finger_width_safety_margin, i, length, suppressed,
                   num_fingers, new_points, copy_of_original_points, pi_turns,
                   centerings, suppressed_arg>>

NextCli ==
    \/ parse_arguments
    \/ make_iteration
    \/ print_svg

SpecCli == InitCli /\ [][NextCli]_vars

\* ================================================================ claims

\* Where the k-th edge (1..4) starts in the made outline, and where it ends.
EdgeStart(k) ==
    1 + (IF k > 1 THEN Len(make_edge(edge_length[1], suppressed_fingers[1])) ELSE 0)
      + (IF k > 2 THEN Len(make_edge(edge_length[2], suppressed_fingers[2])) ELSE 0)
      + (IF k > 3 THEN Len(make_edge(edge_length[3], suppressed_fingers[3])) ELSE 0)

EdgeEnd(k) == IF k < 4 THEN EdgeStart(k + 1) - 1 ELSE Len(points)

\* C1: after make() the outline is closed for every panel, kerf > 0 included:
\* each edge ends where the next one starts, and the fourth edge ends where the
\* first one starts.
C1_OutlineClosed ==
    pc = "built" =>
        \A k \in 1..4 : points[EdgeEnd(k)] = points[EdgeStart((k % 4) + 1)]

\* C2: svg() on an outline of N points emits N lines, the k-th from point k to
\* the point after it, the last one from the last point back to the first.
C2_SvgEmitsEverySegment ==
    (pc \in {"exported", "printed"} /\ out # None) =>
        /\ Len(SvgLines(out)) = Len(points)
        /\ \A k \in 1..Len(points) :
              SvgLines(out)[k] = <<points[k], points[(k % Len(points)) + 1]>>

\* C3: two rotate(pi) calls in succession put every point back where it was,
\* in the same number and order.
C3_RotateTwicePi ==
    pi_turns = 2 => points = copy_of_original_points

C3_Witness ==
    /\ pi_turns = 2
    /\ pc = "rotated"
    /\ \E k \in 1..Len(points) : points[k] # <<0, 0>>
    /\ points # Rotated(points, PI)

\* C4: rotate(angle) maps every point (x, y) to
\* (x cos(angle) - y sin(angle), x sin(angle) + y cos(angle)), so rotate(pi/2)
\* maps (x, y) to (-y, x).
C4_RotateCounterclockwise ==
    [][\A angle \in {PI_2, PI} :
          rotate(angle) =>
              points' = [k \in 1..Len(points) |->
                            <<points[k][1] * Cos(angle) - points[k][2] * Sin(angle),
                              points[k][1] * Sin(angle) + points[k][2] * Cos(angle)>>]]_vars

Xs(pts) == {pts[k][1] : k \in 1..Len(pts)}
Ys(pts) == {pts[k][2] : k \in 1..Len(pts)}
Least(S) == CHOOSE v \in S : \A u \in S : v <= u
Greatest(S) == CHOOSE v \in S : \A u \in S : v >= u

\* A step of center_points, alone or inside svg: only these count a centering.
IsCentering == centerings' = centerings + 1

\* C5: after center_points() the least x and the least y are SVG_MARGIN,
\* svg_width and svg_height are the spans of the outline in x and in y plus
\* 2 * SVG_MARGIN, and the points are as many as before and in the same order
\* (each moved by the same amount).
C5_Centering ==
    [][IsCentering =>
          /\ Least(Xs(points')) = D(SVG_MARGIN)
          /\ Least(Ys(points')) = D(SVG_MARGIN)
          /\ svg_width' = Greatest(Xs(points)) - Least(Xs(points)) + D(2 * SVG_MARGIN)
          /\ svg_height' = Greatest(Ys(points)) - Least(Ys(points)) + D(2 * SVG_MARGIN)
          /\ Len(points') = Len(points)
          /\ \A k \in 1..Len(points) :
                /\ points'[k][1] - points[k][1] = points'[1][1] - points[1][1]
                /\ points'[k][2] - points[k][2] = points'[1][2] - points[1][2]]_vars

\* The outline has been centered from somewhere else: its first point was made
\* at the origin and the least corner of a rotated outline is not at the margin.
C5_Witness ==
    /\ pc = "centered"
    /\ centerings = 1
    /\ svg_width # svg_height
    /\ Least(Xs(points)) = D(SVG_MARGIN)
    /\ \E k \in 1..Len(points) : points[k][2] > D(SVG_MARGIN) + D(height + kerf)

\* C6: a second or later center_points(), alone or in svg(), changes no point
\* and neither svg_width nor svg_height, and an svg() call that follows an
\* svg() call returns what that one returned.
C6_CenteringIdempotent ==
    [][(centerings >= 1 /\ IsCentering) =>
          /\ points' = points
          /\ svg_width' = svg_width
          /\ svg_height' = svg_height
          /\ (out # None /\ out' # None => out' = out)]_vars

C6_Witness ==
    /\ centerings >= 2
    /\ pc = "exported"
    /\ out # None
    /\ Len(SvgLines(out)) > 8

\* C7: the finger count of _make_edge is odd: with q the whole number of
\* finger widths in the length, it is q - suppressed when that is odd and one
\* less when that is even, zero and negative values included.
C7_FingerParity ==
    pc = "edge_done" =>
        /\ num_fingers % 2 = 1
        /\ \E q \in 0..length :
              /\ q * finger_width <= length
              /\ length < (q + 1) * finger_width
              /\ ((q - suppressed) % 2 = 1 => num_fingers = q - suppressed)
              /\ ((q - suppressed) % 2 = 0 => num_fingers = q - suppressed - 1)

\* The example of the specification, and an edge shorter than one finger.
C7_Witness ==
    /\ pc = "edge_done"
    /\ length = 5 /\ finger_width = 2 /\ suppressed = 0
    /\ num_fingers = 1

C7_WitnessNegative ==
    /\ pc = "edge_done"
    /\ length = 0
    /\ num_fingers < 0

\* C8: a --suppressed_fingers text that is not four comma-separated integers
\* ends parse_arguments in a usage error, before anything is made.
Malformed(string) ==
    \/ Len(Split(string)) # 4
    \/ \E k \in 1..Len(Split(string)) : ~IsInt(Split(string)[k])

C8_MalformedIsUsageError ==
    (suppressed_arg # NotGiven /\ Malformed(suppressed_arg) /\ pc # "main") =>
        (pc = "usage_error" /\ points = None)

\* C9: an edge of n >= 1 fingers has 2 (n + 1) + 2 points: the origin, n + 1
\* pairs that go up and down in turn, the first at x = spare_change / 2 and
\* the last at x = length + kerf - spare_change / 2, and the far end on the
\* baseline, for every kerf >= 0.
C9_EdgeTransitions ==
    (pc = "edge_done" /\ num_fingers >= 1) =>
        LET n == num_fingers
            spare == length - n * finger_width
            top == kerf + D(finger_width + finger_width_safety_margin)
        IN /\ Len(new_points) = 2 * (n + 1) + 2
           /\ new_points[2][1] = spare
           /\ new_points[Len(new_points) - 1][1] = D(length + kerf) - spare
           /\ \A j \in 0..n :
                 /\ new_points[2 * j + 2][1] = new_points[2 * j + 3][1]
                 /\ new_points[2 * j + 2][2] = (IF j % 2 = 0 THEN kerf ELSE top)
                 /\ new_points[2 * j + 3][2] = (IF j % 2 = 0 THEN top ELSE kerf)
           /\ new_points[Len(new_points)] = <<D(length + kerf), kerf>>

\* C10: after make() the four edges start at the corners of the rectangle of
\* size (width + kerf) x (height + kerf), in the order of its perimeter, the
\* first edge at the origin; the four corners differ.
C10_EdgeStartsAreCorners ==
    pc = "built" =>
        /\ points[EdgeStart(1)] = <<0, 0>>
        /\ points[EdgeStart(2)] = <<D(width + kerf), 0>>
        /\ points[EdgeStart(3)] = <<D(width + kerf), D(height + kerf)>>
        /\ points[EdgeStart(4)] = <<0, D(height + kerf)>>
        /\ Cardinality({points[EdgeStart(k)] : k \in 1..4}) = 4

C10_Witness ==
    /\ pc = "built"
    /\ i = 4
    /\ kerf > 0
    /\ width # height
    /\ Len(points) > 8

====
